---- MODULE Spec2Model ----
(***************************************************************************)
(* Points on a short Weierstrass curve y^2 = x^3 + a*x + b with i32        *)
(* coordinates (src/point.rs): construction (Point::new), equality         *)
(* (PartialEq) and the group addition (Add).                               *)
(*                                                                         *)
(* The coordinate type CurveElement lives in crate::curve_element, which   *)
(* is not part of the sources at hand; it is modelled from section 6.1 of  *)
(* the specification as a tagged value: the sentinel None or Some(n).      *)
(*                                                                         *)
(* All scalars are Rust i32.  TLC's own integers are 32 bits wide, so the  *)
(* i32 operations below never form a value outside the i32 range: they     *)
(* detect the overflow first and compute the wrapped result directly.      *)
(***************************************************************************)
EXTENDS Integers, FiniteSets, TLC

VARIABLES overflowChecks, pc, p, q, r, eqPQ, pq, qp, qr, pq_r, p_qr

vars == <<overflowChecks, pc, p, q, r, eqPQ, pq, qp, qr, pq_r, p_qr>>

---------------------------------------------------------------------------
(* Bounds of the explored inputs.                                          *)

\* finite x arguments of Point::new range over -MaxX..MaxX
MaxX == 3
\* finite y arguments of Point::new range over -MaxY..MaxY (and LargeY)
MaxY == 7

---------------------------------------------------------------------------
(* i32 arithmetic.  A scalar under evaluation is a record                  *)
(*   v     : the i32 value (wrapped when an overflow went unchecked)       *)
(*   fatal : "" or the panic that stopped the evaluation                   *)
(*   ovf   : some operation so far overflowed i32                          *)
(*   exact : every division so far had remainder 0                         *)
(* ovf and exact only record what happened; no operation reads them.       *)

I32Max == 2147483647
I32Min == -I32Max - 1

AddOverflows(m, n) ==
    \/ m > 0 /\ n > 0 /\ m > I32Max - n
    \/ m < 0 /\ n < 0 /\ m < I32Min - n

\* m + n modulo 2^32, as a signed 32-bit value
WrappingAdd(m, n) ==
    IF m > 0 /\ n > 0 /\ m > I32Max - n THEN (m + I32Min) + (n + I32Min)
    ELSE IF m < 0 /\ n < 0 /\ m < I32Min - n THEN (m - I32Min) + (n - I32Min)
    ELSE m + n

SubOverflows(m, n) ==
    \/ m >= 0 /\ n < 0 /\ m > I32Max + n
    \/ m < 0 /\ n > 0 /\ m < I32Min + n

\* m - n modulo 2^32, as a signed 32-bit value
WrappingSub(m, n) ==
    IF m >= 0 /\ n < 0 /\ m > I32Max + n THEN (m + I32Min) - (n - I32Min)
    ELSE IF m < 0 /\ n > 0 /\ m < I32Min + n THEN (m - I32Min) - (n + I32Min)
    ELSE m - n

MulOverflows(m, n) ==
    IF m = 0 \/ n = 0 THEN FALSE
    ELSE IF m = -1 THEN n = I32Min
    ELSE IF n = -1 THEN m = I32Min
    ELSE IF m > 0 /\ n > 0 THEN m > I32Max \div n
    ELSE IF m > 0 /\ n < 0 THEN n < (I32Min + m - 1) \div m
    ELSE IF m < 0 /\ n > 0 THEN m < (I32Min + n - 1) \div n
    ELSE m = I32Min \/ n = I32Min \/ (-m) > I32Max \div (-n)

\* byte i (0 the lowest) of the two's complement form of m
Byte(m, i) ==
    LET sh == IF i = 0 THEN 1 ELSE IF i = 1 THEN 256
              ELSE IF i = 2 THEN 65536 ELSE 16777216
    IN  (m \div sh) % 256

\* the product of byte i of m and byte k - i of n, of weight 256^k
ByteProduct(m, n, k, i) == IF i <= k THEN Byte(m, i) * Byte(n, k - i) ELSE 0

\* column k of the schoolbook multiplication of the bytes of m and n:
\* the byte products of weight 256^k plus the carry of the column below
RECURSIVE MulColumn(_, _, _)
MulColumn(m, n, k) ==
    ByteProduct(m, n, k, 0) + ByteProduct(m, n, k, 1)
    + ByteProduct(m, n, k, 2) + ByteProduct(m, n, k, 3)
    + (IF k = 0 THEN 0 ELSE MulColumn(m, n, k - 1) \div 256)

\* a byte as the top byte of a signed 32-bit value
SignedByte(c) == IF c >= 128 THEN c - 256 ELSE c

\* m * n modulo 2^32, as a signed 32-bit value: the four low bytes of the
\* schoolbook product
WrappingMul(m, n) ==
    IF ~MulOverflows(m, n) THEN m * n
    ELSE (MulColumn(m, n, 0) % 256)
         + 256 * (MulColumn(m, n, 1) % 256)
         + 65536 * (MulColumn(m, n, 2) % 256)
         + 16777216 * SignedByte(MulColumn(m, n, 3) % 256)

\* Rust's i32 division: the quotient truncated toward zero.
\* Defined for n # 0 and not (m = I32Min and n = -1).
TruncDiv(m, n) ==
    IF n > 0 THEN (IF m >= 0 THEN m \div n ELSE (m + n - 1) \div n)
    ELSE IF n = I32Min THEN (IF m = I32Min THEN 1 ELSE 0)
    ELSE IF m >= 0 THEN -(m \div (-n))
    ELSE -((m - n - 1) \div (-n))

Lit(n) == [v |-> n, fatal |-> "", ovf |-> FALSE, exact |-> TRUE]

FirstFatal(A, B, here) ==
    IF A.fatal # "" THEN A.fatal
    ELSE IF B.fatal # "" THEN B.fatal
    ELSE here

\* The operators below take each operand through a singleton set, which
\* evaluates it once and before the operation, as Rust evaluates the
\* operands of a binary operator.

\* `+` on i32: panics on overflow when overflow checks are compiled in,
\* wraps otherwise
I32Add(A, B, checks) ==
    CHOOSE sum \in
        {LET f == FirstFatal(a, b, IF checks /\ AddOverflows(a.v, b.v)
                                   THEN "Overflow" ELSE "")
         IN  [v     |-> IF f = "" THEN WrappingAdd(a.v, b.v) ELSE 0,
              fatal |-> f,
              ovf   |-> a.ovf \/ b.ovf \/ (f = "" /\ AddOverflows(a.v, b.v)),
              exact |-> a.exact /\ b.exact] : a \in {A}, b \in {B}} : TRUE

I32Sub(A, B, checks) ==
    CHOOSE diff \in
        {LET f == FirstFatal(a, b, IF checks /\ SubOverflows(a.v, b.v)
                                   THEN "Overflow" ELSE "")
         IN  [v     |-> IF f = "" THEN WrappingSub(a.v, b.v) ELSE 0,
              fatal |-> f,
              ovf   |-> a.ovf \/ b.ovf \/ (f = "" /\ SubOverflows(a.v, b.v)),
              exact |-> a.exact /\ b.exact] : a \in {A}, b \in {B}} : TRUE

I32Mul(A, B, checks) ==
    CHOOSE prod \in
        {LET f == FirstFatal(a, b, IF checks /\ MulOverflows(a.v, b.v)
                                   THEN "Overflow" ELSE "")
         IN  [v     |-> IF f = "" THEN WrappingMul(a.v, b.v) ELSE 0,
              fatal |-> f,
              ovf   |-> a.ovf \/ b.ovf \/ (f = "" /\ MulOverflows(a.v, b.v)),
              exact |-> a.exact /\ b.exact] : a \in {A}, b \in {B}} : TRUE

\* `/` on i32: a zero divisor and i32::MIN / -1 panic in every build
I32Div(A, B, checks) ==
    CHOOSE quot \in
        {LET f == FirstFatal(a, b, IF b.v = 0 THEN "DivByZero"
                                   ELSE IF a.v = I32Min /\ b.v = -1
                                   THEN "Overflow" ELSE "")
             d == IF f = "" THEN TruncDiv(a.v, b.v) ELSE 0
         IN  [v     |-> d,
              fatal |-> f,
              ovf   |-> a.ovf \/ b.ovf,
              exact |-> a.exact /\ b.exact /\ (f = "" => d * b.v = a.v)] :
            a \in {A}, b \in {B}} : TRUE

\* num_traits::pow for the exponents the point code uses: repeated `*`
\* (2: base*base; 3: base * (base*base))
pow(A, e, checks) ==
    IF e = 2 THEN I32Mul(A, A, checks)
    ELSE I32Mul(A, I32Mul(A, A, checks), checks)

---------------------------------------------------------------------------
(* CurveElement (crate::curve_element): the sentinel None or Some(n).      *)

None == [some |-> FALSE, v |-> 0]

int_to_curve(n) == [some |-> TRUE, v |-> n]

is_none(c) == ~c.some

\* the scalar of a finite element; fatal on the sentinel
unwrap(c) ==
    IF c.some THEN Lit(c.v)
    ELSE [v |-> 0, fatal |-> "UnwrapNone", ovf |-> FALSE, exact |-> TRUE]

\* == on coordinate elements: same tag and same scalar; None == None
CurveElementEq(c, d) == c.some = d.some /\ (c.some => c.v = d.v)

---------------------------------------------------------------------------
(* Point and the outcome of a call that returns one.                       *)
(*   st    : "ok" (pt was returned), "panic" (err says which), or "unset"  *)
(*           for a call that has not been made                             *)
(*   ovf, exact, case : what the evaluation went through (never read by    *)
(*           an operation)                                                 *)

Point(x, y, a, b) == [x |-> x, y |-> y, a |-> a, b |-> b]

Returned(pt, ovf, exact, case) ==
    [st |-> "ok", pt |-> pt, err |-> "", ovf |-> ovf, exact |-> exact,
     case |-> case]

Panicked(err, ovf, case) ==
    [st |-> "panic", pt |-> Point(None, None, 0, 0), err |-> err,
     ovf |-> ovf, exact |-> TRUE, case |-> case]

Unset ==
    [st |-> "unset", pt |-> Point(None, None, 0, 0), err |-> "",
     ovf |-> FALSE, exact |-> TRUE, case |-> ""]

\* The curve check of Point::new: pow(ny, 2) != pow(nx, 3) + a * nx + b,
\* both sides evaluated in i32.  The result has the fields of a scalar and
\* off: the two sides differ.
OffCurveCheck(nx, ny, a, b, checks) ==
    LET lhs == pow(ny, 2, checks)
        rhs == I32Add(I32Add(pow(nx, 3, checks), I32Mul(Lit(a), nx, checks),
                             checks), Lit(b), checks)
        f   == FirstFatal(lhs, rhs, "")
    IN  [fatal |-> f, ovf |-> lhs.ovf \/ rhs.ovf,
         off |-> f = "" /\ lhs.v # rhs.v]

\* Point::new
new(x, y, a, b, checks) ==
    IF is_none(x) /\ is_none(y)
    THEN Returned(Point(x, y, a, b), FALSE, TRUE, "infinity")
    ELSE LET nx == unwrap(x)
             ny == unwrap(y)
             c  == OffCurveCheck(nx, ny, a, b, checks)
         IN  IF nx.fatal # "" THEN Panicked(nx.fatal, FALSE, "finite")
             ELSE IF c.fatal # "" THEN Panicked(c.fatal, c.ovf, "finite")
             ELSE IF c.off THEN Panicked("NotOnCurve", c.ovf, "finite")
             ELSE Returned(Point(x, y, a, b), c.ovf, TRUE, "finite")

\* eq as it would be if it compared the coordinates alone
eqIgnoringCurve(self, other) ==
    /\ CurveElementEq(self.x, other.x)
    /\ CurveElementEq(self.y, other.y)

\* PartialEq for Point
eq(self, other) ==
    /\ CurveElementEq(self.x, other.x)
    /\ CurveElementEq(self.y, other.y)
    /\ self.a = other.a
    /\ self.b = other.b

\* the guard as it would be with `&` for `|`
CurveMismatchBoth(self, other) == (self.a # other.a) /\ (self.b # other.b)

\* the guard of the panic that opens Point::add
CurveMismatch(self, other) == (self.a # other.a) \/ (self.b # other.b)

\* case 1 as it would be with `==` for `!=`
IsInverseCaseEqualY(self, other) ==
    CurveElementEq(self.x, other.x) /\ CurveElementEq(self.y, other.y)

\* Case 1: self.x == other.x, self.y != other.y
IsInverseCase(self, other) ==
    CurveElementEq(self.x, other.x) /\ ~CurveElementEq(self.y, other.y)

\* Case 2: self.x != other.x
IsChordCase(self, other) == ~CurveElementEq(self.x, other.x)

\* s = (oy - sy) / (ox - sx)
ChordSlope(sx, sy, ox, oy, checks) ==
    I32Div(I32Sub(oy, sy, checks), I32Sub(ox, sx, checks), checks)

\* the chord's x as it would be with sx subtracted twice
ChordXSelfTwice(s, sx, ox, checks) ==
    I32Sub(I32Sub(pow(s, 2, checks), sx, checks), sx, checks)

\* x = pow(s, 2) - sx - ox
ChordX(s, sx, ox, checks) ==
    I32Sub(I32Sub(pow(s, 2, checks), sx, checks), ox, checks)

\* y as it would be with sy added for subtracted: s * (sx - x) + sy
LineYAddingSy(s, sx, x, sy, checks) ==
    I32Add(I32Mul(s, I32Sub(sx, x, checks), checks), sy, checks)

\* y = s * (sx - x) - sy, the same expression in cases 2 and 3
LineY(s, sx, x, sy, checks) ==
    I32Sub(I32Mul(s, I32Sub(sx, x, checks), checks), sy, checks)

\* case 4 as it would be comparing self.y with self.x for 0 * self.x
VerticalTangentAgainstX(self, other) ==
    LET sy == unwrap(self.y)
        sx == unwrap(self.x)
        f  == FirstFatal(sy, sx, "")
    IN  [fatal |-> f,
         v |-> f = "" /\ eq(self, other) /\ sy.v = sx.v]

\* Case 4: (self == other) & (self.y == 0 * self.x); both operands of the
\* `&` are evaluated.  v: the condition.
VerticalTangent(self, other) ==
    LET sy == unwrap(self.y)
        sx == unwrap(self.x)
        f  == FirstFatal(sy, sx, "")
    IN  [fatal |-> f,
         v |-> f = "" /\ eq(self, other) /\ sy.v = 0 * sx.v]

\* the tangent slope as it would be with 2 for the factor 3
TangentSlopeFactorTwo(sx, sy, a, checks) ==
    I32Div(I32Add(I32Mul(Lit(2), pow(sx, 2, checks), checks), Lit(a), checks),
           I32Mul(Lit(2), sy, checks), checks)

\* s = (3 * pow(sx, 2) + self.a) / (2 * sy)
TangentSlope(sx, sy, a, checks) ==
    I32Div(I32Add(I32Mul(Lit(3), pow(sx, 2, checks), checks), Lit(a), checks),
           I32Mul(Lit(2), sy, checks), checks)

\* x = pow(s, 2) - 2 * sx
TangentX(s, sx, checks) ==
    I32Sub(pow(s, 2, checks), I32Mul(Lit(2), sx, checks), checks)

\* case 0.0 as it would be returning self
Case00ReturningSelf(self, other) == Returned(self, FALSE, TRUE, "0.0")

\* case 0.1 as it would be returning other
Case01ReturningOther(self, other) == Returned(other, FALSE, TRUE, "0.1")

\* Case 0.0: self is the point at infinity, return other
Case00(self, other) == Returned(other, FALSE, TRUE, "0.0")

\* Case 0.1: other is the point at infinity, return self
Case01(self, other) == Returned(self, FALSE, TRUE, "0.1")

\* the point at infinity that cases 1 and 4 return
InfinityOf(self, case) ==
    Returned(Point(None, None, self.a, self.b), FALSE, TRUE, case)

\* the point built from the computed coordinates, or the panic that
\* stopped their evaluation
FromCoordinates(x, y, a, b, case) ==
    IF y.fatal # "" THEN Panicked(y.fatal, y.ovf, case)
    ELSE Returned(Point(int_to_curve(x.v), int_to_curve(y.v), a, b),
                  x.ovf \/ y.ovf, y.exact, case)

\* Point::add
add(self, other, checks) ==
    IF CurveMismatch(self, other)
    THEN Panicked("CurveMismatch", FALSE, "mismatch")
    ELSE IF is_none(self.x) THEN Case00(self, other)
    ELSE IF is_none(other.x) THEN Case01(self, other)
    ELSE IF IsInverseCase(self, other) THEN InfinityOf(self, "1")
    ELSE IF IsChordCase(self, other)
    THEN LET sx == unwrap(self.x)
             sy == unwrap(self.y)
             ox == unwrap(other.x)
             oy == unwrap(other.y)
             s  == ChordSlope(sx, sy, ox, oy, checks)
             x  == ChordX(s, sx, ox, checks)
             y  == LineY(s, sx, x, sy, checks)
         IN  FromCoordinates(x, y, self.a, self.b, "2")
    ELSE LET vt == VerticalTangent(self, other)
         IN  IF vt.fatal # "" THEN Panicked(vt.fatal, FALSE, "4")
             ELSE IF vt.v THEN InfinityOf(self, "4")
             ELSE IF eq(self, other)
             THEN LET sx == unwrap(self.x)
                      sy == unwrap(self.y)
                      s  == TangentSlope(sx, sy, self.a, checks)
                      x  == TangentX(s, sx, checks)
                      y  == LineY(s, sx, x, sy, checks)
                  IN  FromCoordinates(x, y, self.a, self.b, "3")
             ELSE Panicked("SomethingWrong", FALSE, "none")

---------------------------------------------------------------------------
(* The calls explored.  A driver makes the calls of the test valid_point   *)
(* in a fixed order, on arguments drawn from bounded sets, each call in    *)
(* isolation so that a panic of one addition does not hide the next:       *)
(*   p = new(..); q = new(..); p == q; p + q; q + p;                       *)
(*   r = new(..); q + r; (p + q) + r; p + (q + r)                          *)
(* A panic of Point::new leaves no point to go on with and ends the run.   *)
(* p keeps the arguments of its call beside the outcome; q and r are the   *)
(* outcomes alone.                                                         *)

\* The curves: (5, 7) of the test valid_point; (0, 1), whose integer points
\* (-1,0), (0,+-1), (2,+-3) form a finite group and include one with
\* y = 0; (5, 1), which differs from each of these in one parameter only;
\* and (-1, 23171^2), on which (0,+-23171), (+-1,+-23171) are on the curve
\* and the chord through (0, 23171), (1, -23171) overflows i32 (slope
\* -46342, whose square exceeds 2^31 - 1).
Curves == {<<5, 7>>, <<0, 1>>, <<5, 1>>, <<-1, 536895241>>}

\* y arguments beyond MaxY: the ordinates on the third curve, and
\* 2^31 - 23171, whose square is congruent to 23171^2 modulo 2^32.
LargeY == {23171, -23171, 2147460477}

XArgs == {None} \cup {int_to_curve(n) : n \in -MaxX..MaxX}

YArgs == {None} \cup {int_to_curve(n) : n \in (-MaxY..MaxY) \cup LargeY}

\* a call of Point::new with its arguments
NewCall(x, y, a, b, checks) ==
    [args |-> Point(x, y, a, b), out |-> new(x, y, a, b, checks)]

\* every call of Point::new on the bounded arguments, per build
NewCalls(checks) ==
    {NewCall(x, y, c[1], c[2], checks) :
        x \in XArgs, y \in YArgs, c \in Curves}

NewCallsChecked == NewCalls(TRUE)

NewCallsUnchecked == NewCalls(FALSE)

NoCall == [args |-> Point(None, None, 0, 0), out |-> Unset]

NoEq == [set |-> FALSE, v |-> FALSE]

Init ==
    /\ overflowChecks \in BOOLEAN
    /\ pc = "new_p"
    /\ p = NoCall /\ q = Unset /\ r = Unset
    /\ eqPQ = NoEq
    /\ pq = Unset /\ qp = Unset /\ qr = Unset /\ pq_r = Unset /\ p_qr = Unset

AfterNew(out, next) == IF out.st = "ok" THEN next ELSE "aborted"

\* the calls of Point::new the build at hand can make
CallsOfNew == IF overflowChecks THEN NewCallsChecked ELSE NewCallsUnchecked

NewP ==
    /\ pc = "new_p"
    /\ \E call \in CallsOfNew :
          /\ p' = call
          /\ pc' = AfterNew(p'.out, "new_q")
    /\ UNCHANGED <<overflowChecks, q, r, eqPQ, pq, qp, qr, pq_r, p_qr>>

NewQ ==
    /\ pc = "new_q"
    /\ \E call \in CallsOfNew :
          /\ q' = call.out
          /\ pc' = AfterNew(q', "eq_pq")
    /\ UNCHANGED <<overflowChecks, p, r, eqPQ, pq, qp, qr, pq_r, p_qr>>

EqPQ ==
    /\ pc = "eq_pq"
    /\ eqPQ' = [set |-> TRUE, v |-> eq(p.out.pt, q.pt)]
    /\ pc' = "add_pq"
    /\ UNCHANGED <<overflowChecks, p, q, r, pq, qp, qr, pq_r, p_qr>>

AddPQ ==
    /\ pc = "add_pq"
    /\ pq' = add(p.out.pt, q.pt, overflowChecks)
    /\ pc' = "add_qp"
    /\ UNCHANGED <<overflowChecks, p, q, r, eqPQ, qp, qr, pq_r, p_qr>>

AddQP ==
    /\ pc = "add_qp"
    /\ qp' = add(q.pt, p.out.pt, overflowChecks)
    /\ pc' = "new_r"
    /\ UNCHANGED <<overflowChecks, p, q, r, eqPQ, pq, qr, pq_r, p_qr>>

NewR ==
    /\ pc = "new_r"
    /\ \E call \in CallsOfNew :
          /\ r' = call.out
          /\ pc' = AfterNew(r', "add_qr")
    /\ UNCHANGED <<overflowChecks, p, q, eqPQ, pq, qp, qr, pq_r, p_qr>>

AddQR ==
    /\ pc = "add_qr"
    /\ qr' = add(q.pt, r.pt, overflowChecks)
    /\ pc' = "add_pq_r"
    /\ UNCHANGED <<overflowChecks, p, q, r, eqPQ, pq, qp, pq_r, p_qr>>

\* (p + q) + r, when p + q returned a point
AddPQ_R ==
    /\ pc = "add_pq_r"
    /\ pq_r' = IF pq.st = "ok" THEN add(pq.pt, r.pt, overflowChecks)
               ELSE Unset
    /\ pc' = "add_p_qr"
    /\ UNCHANGED <<overflowChecks, p, q, r, eqPQ, pq, qp, qr, p_qr>>

\* p + (q + r), when q + r returned a point
AddP_QR ==
    /\ pc = "add_p_qr"
    /\ p_qr' = IF qr.st = "ok" THEN add(p.out.pt, qr.pt, overflowChecks)
               ELSE Unset
    /\ pc' = "done"
    /\ UNCHANGED <<overflowChecks, p, q, r, eqPQ, pq, qp, qr, pq_r>>

Next ==
    \/ NewP \/ NewQ \/ EqPQ \/ AddPQ \/ AddQP
    \/ NewR \/ AddQR \/ AddPQ_R \/ AddP_QR

Spec == Init /\ [][Next]_vars

---------------------------------------------------------------------------
(* The mathematics the properties are stated in.  Coordinates are i32 but  *)
(* y^2 and x^3 are not, so an equation over the integers is decided by     *)
(* its residues: the moduli are pairwise coprime with a product above      *)
(* 2^104, more than twice any value the equations below can take, so two   *)
(* such values are equal exactly when all their residues are.              *)

Moduli == {32749, 32719, 32717, 32713, 32707, 32693, 32687}

IsInfinity(pt) == ~pt.x.some /\ ~pt.y.some

IsFinite(pt) == pt.x.some /\ pt.y.some

\* y^2 = x^3 + a*x + b modulo m
OnCurveMod(x, y, a, b, m) ==
    LET xm == x % m
        ym == y % m
    IN  (ym * ym) % m
        = (((((xm * xm) % m) * xm) % m) + (((a % m) * xm) % m) + (b % m)) % m

\* a finite point with y^2 = x^3 + a*x + b over the integers
OnCurveZ(pt) ==
    /\ IsFinite(pt)
    /\ \A m \in Moduli : OnCurveMod(pt.x.v, pt.y.v, pt.a, pt.b, m)

\* a group element: the point at infinity or a finite point on its curve
ValidPoint(pt) == IsInfinity(pt) \/ OnCurveZ(pt)

SameCurve(s, t) == s.a = t.a /\ s.b = t.b

\* the point at infinity of the curve of pt
InfinityOn(pt) == Point(None, None, pt.a, pt.b)

\* the additions made so far: left operand, right operand, outcome
Additions ==
    {A \in {[l |-> p.out.pt, r |-> q.pt, out |-> pq],
            [l |-> q.pt, r |-> p.out.pt, out |-> qp],
            [l |-> q.pt, r |-> r.pt, out |-> qr],
            [l |-> pq.pt, r |-> r.pt, out |-> pq_r],
            [l |-> p.out.pt, r |-> qr.pt, out |-> p_qr]} :
        A.out.st # "unset"}

\* the additions whose operands are group elements of one curve
ValidAdditions ==
    {A \in Additions :
        ValidPoint(A.l) /\ ValidPoint(A.r) /\ SameCurve(A.l, A.r)}

\* the addition went through without an i32 overflow
NoOverflow(out) == ~out.ovf /\ out.err # "Overflow"

---------------------------------------------------------------------------
(* C1, closure on the curve.                                               *)

\* C1 as stated: every point returned by an addition of two valid points
\* of one curve is the point at infinity or a finite point on that curve,
\* and carries the operands' a and b.
ClosureOnCurve ==
    \A A \in ValidAdditions :
        A.out.st = "ok" =>
            /\ ValidPoint(A.out.pt)
            /\ SameCurve(A.out.pt, A.l)

\* C1 amended: the point returned by an addition of two valid points of
\* one curve is the point at infinity or on that curve, and carries the
\* operands' a and b, whenever the slope division of the addition (if any)
\* is exact and none of its i32 operations overflows.
ClosureOnCurveWhenExact ==
    \A A \in ValidAdditions :
        (A.out.st = "ok" /\ A.out.exact /\ NoOverflow(A.out)) =>
            /\ ValidPoint(A.out.pt)
            /\ SameCurve(A.out.pt, A.l)

\* a chord and a doubling of valid finite points, both exact, both
\* returning a finite point
ClosureWitness ==
    /\ pq.st = "ok" /\ pq.case = "2" /\ pq.exact /\ NoOverflow(pq)
    /\ OnCurveZ(p.out.pt) /\ OnCurveZ(q.pt) /\ OnCurveZ(pq.pt)
    /\ qr.st = "ok" /\ qr.case = "3" /\ qr.exact /\ NoOverflow(qr)
    /\ OnCurveZ(qr.pt)

---------------------------------------------------------------------------
(* C2, commutativity.                                                      *)

\* C2 as stated: for valid points p, q of one curve, p + q and q + p are
\* equal points, in every case of the addition.
Commutativity ==
    (/\ pq.st # "unset" /\ qp.st # "unset"
     /\ ValidPoint(p.out.pt) /\ ValidPoint(q.pt) /\ SameCurve(p.out.pt, q.pt))
    => ((pq.st = "ok" /\ qp.st = "ok") => eq(pq.pt, qp.pt))

\* C2 amended: for valid points p, q of one curve, p + q and q + p are
\* equal points whenever the chord slope division is exact and neither
\* addition overflows i32; the identity, inverse and doubling cases
\* divide exactly or not at all.
CommutativityWhenExact ==
    (/\ pq.st = "ok" /\ qp.st = "ok"
     /\ ValidPoint(p.out.pt) /\ ValidPoint(q.pt) /\ SameCurve(p.out.pt, q.pt)
     /\ pq.exact /\ qp.exact /\ NoOverflow(pq) /\ NoOverflow(qp))
    => eq(pq.pt, qp.pt)

\* both orders of an exact chord of two valid finite points were added
CommutativityWitness ==
    /\ pq.st = "ok" /\ qp.st = "ok" /\ pq.case = "2" /\ qp.case = "2"
    /\ pq.exact /\ qp.exact /\ NoOverflow(pq) /\ NoOverflow(qp)
    /\ OnCurveZ(p.out.pt) /\ OnCurveZ(q.pt) /\ IsFinite(pq.pt)

---------------------------------------------------------------------------
(* C3, associativity.                                                      *)

---------------------------------------------------------------------------
(* C4, inverse.                                                            *)

\* q is the mirror image (x, -y) of the finite point p
IsMirror(s, t) ==
    /\ IsFinite(s) /\ IsFinite(t) /\ SameCurve(s, t)
    /\ t.x.v = s.x.v
    /\ s.y.v # I32Min /\ t.y.v = -s.y.v

\* C4: for a finite point p = (x, y) on its curve, p + (x, -y) returns the
\* point at infinity of the same curve, also when y = 0 and (x, -y) is p.
Inverse ==
    (/\ pq.st # "unset"
     /\ OnCurveZ(p.out.pt) /\ IsMirror(p.out.pt, q.pt))
    => (pq.st = "ok" /\ pq.pt = InfinityOn(p.out.pt))

\* a point with y = 0 was added to itself, through the vertical tangent case
InverseWitness ==
    /\ pq.st = "ok" /\ pq.case = "4"
    /\ OnCurveZ(p.out.pt) /\ IsMirror(p.out.pt, q.pt)
    /\ p.out.pt.y.v = 0
    /\ IsInfinity(pq.pt)

---------------------------------------------------------------------------
(* C5, identity.                                                           *)

\* C5: with O the point at infinity of a curve and t any valid point of
\* it (finite or O), O + t and t + O return t, equal in all four
\* components.
Identity ==
    \A A \in ValidAdditions :
        /\ IsInfinity(A.l) => (A.out.st = "ok" /\ A.out.pt = A.r)
        /\ IsInfinity(A.r) => (A.out.st = "ok" /\ A.out.pt = A.l)

\* O + q and q + O were both made for a finite q on the curve
IdentityWitness ==
    /\ pq.st = "ok" /\ qp.st = "ok"
    /\ IsInfinity(p.out.pt) /\ OnCurveZ(q.pt) /\ SameCurve(p.out.pt, q.pt)
    /\ pq.case = "0.0" /\ qp.case = "0.1"
    /\ pq.pt = q.pt /\ qp.pt = q.pt

---------------------------------------------------------------------------
(* C6, construction validation.                                            *)

\* C6: Point::new(x, y, a, b) fails exactly when (x, y) is neither
\* (None, None) nor a finite pair with y^2 = x^3 + a*x + b, and otherwise
\* returns the point whose four components are the arguments.
ConstructionValidation ==
    p.out.st # "unset" =>
        /\ p.out.st = "panic"
              <=> ~(IsInfinity(p.args) \/ OnCurveZ(p.args))
        /\ p.out.st = "ok" => p.out.pt = p.args

---------------------------------------------------------------------------
(* C7, curve mismatch.                                                     *)

\* C7: an addition of points with different a or different b fails with
\* the curve mismatch and returns no point, whatever the operands are
\* (the point at infinity included); with equal a and b that failure does
\* not occur.
CurveMismatchIsFatal ==
    \A A \in Additions :
        IF SameCurve(A.l, A.r)
        THEN A.out.err # "CurveMismatch"
        ELSE A.out.st = "panic" /\ A.out.err = "CurveMismatch"

\* the point at infinity of one curve was added to a finite point of a
\* curve with the same a and another b
CurveMismatchWitness ==
    /\ pq.st = "panic" /\ pq.err = "CurveMismatch"
    /\ IsInfinity(p.out.pt) /\ IsFinite(q.pt)
    /\ p.out.pt.a = q.pt.a /\ p.out.pt.b # q.pt.b

---------------------------------------------------------------------------
(* C8, totality of the addition on one curve.                              *)

WellFormed(pt) == IsInfinity(pt) \/ IsFinite(pt)

\* C8: an addition of two points of one curve, each the point at infinity
\* or with two finite coordinates, whose arithmetic does not overflow i32
\* returns a point through one of the six cases: no unwrap of None, no
\* division by zero, and the final panic is not reached.
TotalityOnOneCurve ==
    \A A \in Additions :
        (/\ SameCurve(A.l, A.r) /\ WellFormed(A.l) /\ WellFormed(A.r)
         /\ NoOverflow(A.out))
        => /\ A.out.st = "ok"
           /\ A.out.case \in {"0.0", "0.1", "1", "2", "3", "4"}

\* the cases met in one run: inverse points (case 1), a chord whose
\* result, off the curve or on it, is added again, and a doubling
TotalityWitness ==
    /\ pq.st = "ok" /\ pq.case = "1"
    /\ qr.st = "ok" /\ qr.case = "3" /\ NoOverflow(qr)
    /\ p_qr.st = "ok" /\ p_qr.case = "2" /\ NoOverflow(p_qr)
    /\ pq_r.st = "ok" /\ pq_r.case = "0.0"

---------------------------------------------------------------------------
(* C9, point equality.                                                     *)

\* the points of the state: constructed or returned by an addition
Points ==
    {o.pt : o \in {o \in {p.out, q, r, pq, qp, qr, pq_r, p_qr} : o.st = "ok"}}

\* C9: p == q holds exactly when the x, the y, the a and the b of the two
\* points are equal, None being equal to None; so two points at infinity
\* are equal exactly when their curves agree, and == is reflexive,
\* symmetric and transitive.
PointEquality ==
    /\ eqPQ.set =>
          (eqPQ.v <=> /\ p.out.pt.x = q.pt.x /\ p.out.pt.y = q.pt.y
                      /\ p.out.pt.a = q.pt.a /\ p.out.pt.b = q.pt.b)
    /\ \A s \in Points : eq(s, s)
    /\ \A s, t \in Points :
          /\ eq(s, t) <=> (s.x = t.x /\ s.y = t.y /\ s.a = t.a /\ s.b = t.b)
          /\ eq(s, t) => eq(t, s)
          /\ (IsInfinity(s) /\ IsInfinity(t)) => (eq(s, t) <=> SameCurve(s, t))
    /\ \A s, t, u \in Points : (eq(s, t) /\ eq(t, u)) => eq(s, u)

\* two points at infinity of curves that differ in b only were compared
\* and found different
PointEqualityWitness ==
    /\ eqPQ.set /\ ~eqPQ.v
    /\ IsInfinity(p.out.pt) /\ IsInfinity(q.pt)
    /\ p.out.pt.a = q.pt.a /\ p.out.pt.b # q.pt.b

---------------------------------------------------------------------------
(* C10, the ordered case table.                                            *)

Abs(n) == IF n < 0 THEN -n ELSE n

\* s is n / d truncated toward zero: n = s*d + rem with |rem| < |d| and
\* rem zero or of the sign of n
IsTruncatedQuotient(s, n, d) ==
    LET rem == n - s * d
    IN  Abs(rem) < Abs(d) /\ (rem = 0 \/ ((rem > 0) <=> (n > 0)))

\* the integers next to n / d, one of which is the truncated quotient
NearQuotients(n, d) ==
    LET f == IF d > 0 THEN n \div d ELSE (-n) \div (-d)
    IN  {f, f + 1}

\* tx = s^2 - lx - rx and ty = s*(lx - tx) - ly over the integers
\* (rx = lx for the tangent)
OnLine(s, lx, ly, rx, tx, ty) ==
    \A m \in Moduli :
        LET sm == s % m
            d  == ((lx % m) - (tx % m)) % m
        IN  /\ tx % m = (((sm * sm) % m) - (lx % m) - (rx % m)) % m
            /\ ty % m = (((sm * d) % m) - (ly % m)) % m

\* t is the chord formula's point for u + w
ChordLaw(u, w, t) ==
    \E s \in NearQuotients(w.y.v - u.y.v, w.x.v - u.x.v) :
        /\ IsTruncatedQuotient(s, w.y.v - u.y.v, w.x.v - u.x.v)
        /\ OnLine(s, u.x.v, u.y.v, w.x.v, t.x.v, t.y.v)

\* t is the tangent formula's point for l + l
TangentLaw(l, t) ==
    \E s \in NearQuotients(3 * l.x.v * l.x.v + l.a, 2 * l.y.v) :
        /\ IsTruncatedQuotient(s, 3 * l.x.v * l.x.v + l.a, 2 * l.y.v)
        /\ OnLine(s, l.x.v, l.y.v, l.x.v, t.x.v, t.y.v)

\* the row of the case table that applies to finite u, w of one curve
CaseTable(u, w, out) ==
    IF u.x.v = w.x.v /\ u.y.v # w.y.v
    THEN out.st = "ok" /\ out.pt = InfinityOn(u)
    ELSE IF u.x.v # w.x.v
    THEN /\ out.st = "ok" /\ IsFinite(out.pt) /\ SameCurve(out.pt, u)
         /\ ChordLaw(u, w, out.pt)
    ELSE IF u.y.v = 0
    THEN out.st = "ok" /\ out.pt = InfinityOn(u)
    ELSE /\ out.st = "ok" /\ IsFinite(out.pt) /\ SameCurve(out.pt, u)
         /\ TangentLaw(u, out.pt)

\* the additions of two finite points on one curve, both from Point::new
FiniteAdditions ==
    {A \in {[l |-> p.out.pt, r |-> q.pt, out |-> pq],
            [l |-> q.pt, r |-> p.out.pt, out |-> qp],
            [l |-> q.pt, r |-> r.pt, out |-> qr]} :
        /\ A.out.st # "unset"
        /\ OnCurveZ(A.l) /\ OnCurveZ(A.r) /\ SameCurve(A.l, A.r)}

\* the two additions of the test valid_point
TestAdditions ==
    /\ (/\ pq.st # "unset"
        /\ p.out.pt = Point(int_to_curve(3), int_to_curve(7), 5, 7)
        /\ q.pt = Point(int_to_curve(-1), int_to_curve(-1), 5, 7))
       => (/\ pq.st = "ok"
           /\ pq.pt = Point(int_to_curve(2), int_to_curve(-5), 5, 7))
    /\ (/\ pq.st # "unset"
        /\ p.out.pt = Point(int_to_curve(-1), int_to_curve(1), 5, 7)
        /\ q.pt = p.out.pt)
       => (/\ pq.st = "ok"
           /\ pq.pt = Point(int_to_curve(18), int_to_curve(-77), 5, 7))

====
